---- MODULE Spec2Model ----
(***************************************************************************)
(* Model of the interval index of davebrent/interval-experiments:         *)
(* IntervalIndex (src/src/index.rs), its brute-force reference            *)
(* BaselineIntervalIndex (src/src/baseline.rs), Interval                  *)
(* (src/src/interval.rs) and DefaultStatistics (src/src/aggregate.rs).    *)
(*                                                                         *)
(* Vec indices are 0-based as in the source; a TLA+ sequence element at   *)
(* source index i is s[i + 1].  A Rust panic (slice or index out of       *)
(* bounds) is modelled as the field panic = TRUE of an operation result.  *)
(***************************************************************************)
EXTENDS Integers, Sequences, FiniteSets

\* ---------------------------------------------------------------- bounds
\* Largest timestamp offered to push and to the query windows.
MaxTime == 1
\* Largest number of push calls in a behaviour.
MaxPush == 6
\* Largest fan-out given to IntervalIndex::new.
MaxOrder == 3
\* Number of blocks of the coarsest lane that triggers rebuild_top_level.
\* The source computes 4096 / size_of::<Interval>() = 256; the model uses a
\* small stand-in so that rebuilds happen within MaxPush pushes.
MaxTopLevel == 2
\* Largest number of merges used to build an aggregate value.
MaxMerge == 3

Timestamps == 0..MaxTime
Intervals == {[start |-> s, end |-> e] : s \in Timestamps, e \in Timestamps}
ProperIntervals == {i \in Intervals : i.start <= i.end}
\* The fan-outs given to IntervalIndex::new; 1 is the smallest it works with.
Orders == 1..MaxOrder

Min(a, b) == IF a <= b THEN a ELSE b
Max(a, b) == IF a >= b THEN a ELSE b

\* ------------------------------------------------------------- interval.rs
\* Mutant of overlaps: the endpoints compared strictly.
overlaps_strict(self, other) == self.start < other.end /\ self.end > other.start

overlaps(self, other) == self.start <= other.end /\ self.end >= other.start

contains(self, other) == self.start <= other.start /\ other.end <= self.end

\* ------------------------------------------------------------ aggregate.rs
empty == [min |-> 0, max |-> 0, total_duration |-> 0, count |-> 0]

initial(interval, value) ==
  LET duration == interval.end - interval.start
  IN [min |-> duration, max |-> duration,
      total_duration |-> duration, count |-> 1]

\* Mutant of DefaultStatistics::aggregate: min assigned from other alone.
DefaultStatistics_aggregate_assign_min(self, other) ==
  [min |-> other.min,
   max |-> Max(other.max, self.max),
   total_duration |-> self.total_duration + other.total_duration,
   count |-> self.count + other.count]

DefaultStatistics_aggregate(self, other) ==
  [min |-> Min(other.min, self.min),
   max |-> Max(other.max, self.max),
   total_duration |-> self.total_duration + other.total_duration,
   count |-> self.count + other.count]

\* ----------------------------------------------------- index.rs: the lanes
FastLane_new(interval) ==
  [interval |-> interval, intervals |-> <<>>, aggregations |-> <<>>]

FastLane_push(lane, interval, agg) ==
  [lane EXCEPT !.intervals = Append(@, interval),
               !.aggregations = Append(@, agg)]

\* Mutant of FastLane::update: the block's interval replaced by the bounds of
\* the block and the new element, start included.
FastLane_update_restart(lane, index, interval, agg) ==
  [lane EXCEPT !.intervals[index + 1] =
                 [start |-> interval.start, end |-> Max(@.end, interval.end)],
               !.aggregations[index + 1] = DefaultStatistics_aggregate(@, agg)]

\* Mutant of FastLane::update: end overwritten instead of maximised.
FastLane_update_overwrite(lane, index, interval, agg) ==
  [lane EXCEPT !.intervals[index + 1].end = interval.end,
               !.aggregations[index + 1] = DefaultStatistics_aggregate(@, agg)]

FastLane_update(lane, index, interval, agg) ==
  [lane EXCEPT !.intervals[index + 1].end = Max(@, interval.end),
               !.aggregations[index + 1] = DefaultStatistics_aggregate(@, agg)]

\* Mutant of SlowLane::push: the element inserted at the front.
SlowLane_push_front(lane, interval, value) ==
  [intervals |-> <<interval>> \o lane.intervals,
   values |-> <<value>> \o lane.values]

SlowLane_push(lane, interval, value) ==
  [intervals |-> Append(lane.intervals, interval),
   values |-> Append(lane.values, value)]

\* ------------------------------------------------ index.rs: IntervalIndex
IntervalIndex_new(ord) ==
  [order |-> ord,
   max_top_level |-> MaxTopLevel,
   fast_lanes |-> <<FastLane_new(ord)>>,
   slow_lane |-> [intervals |-> <<>>, values |-> <<>>]]

RECURSIVE pow(_, _)
pow(b, e) == IF e = 0 THEN 1 ELSE b * pow(b, e - 1)

\* The loop of rebuild_top_level over the blocks of the old top lane,
\* i is the 0-based position of the next block to fold in.
RECURSIVE rebuild_fold(_, _, _, _)
rebuild_fold(top, ord, i, fast_lane) ==
  IF i >= Len(top.intervals) THEN fast_lane
  ELSE LET copy == DefaultStatistics_aggregate(empty, top.aggregations[i + 1])
           next == IF i % ord = 0
                   THEN FastLane_push(fast_lane, top.intervals[i + 1], copy)
                   ELSE FastLane_update(fast_lane, i \div ord,
                                        top.intervals[i + 1], copy)
       IN rebuild_fold(top, ord, i + 1, next)

\* Mutant of rebuild_top_level: the new lane gets the width of the old top
\* lane.
rebuild_top_level_same_width(self) ==
  LET top == self.fast_lanes[1]
      interval == pow(self.order, Len(self.fast_lanes))
      fast_lane == rebuild_fold(top, self.order, 0, FastLane_new(interval))
  IN [self EXCEPT !.fast_lanes = <<fast_lane>> \o @]

rebuild_top_level(self) ==
  LET top == self.fast_lanes[1]
      interval == pow(self.order, Len(self.fast_lanes) + 1)
      fast_lane == rebuild_fold(top, self.order, 0, FastLane_new(interval))
  IN [self EXCEPT !.fast_lanes = <<fast_lane>> \o @]

\* Mutant of the rebuild test: off by one.
top_level_full_early(self) ==
  Len(self.fast_lanes[1].intervals) + 1 = self.max_top_level

\* The test of push that decides whether the top level is rebuilt.
top_level_full(self) ==
  Len(self.fast_lanes[1].intervals) = self.max_top_level

IntervalIndex_push(self, interval, value) ==
  LET index == Len(self.slow_lane.intervals)
      lanes == [l \in DOMAIN self.fast_lanes |->
                 LET lane == self.fast_lanes[l]
                     agg == initial(interval, value)
                 IN IF index % lane.interval = 0
                    THEN FastLane_push(lane, interval, agg)
                    ELSE FastLane_update(lane, index \div lane.interval,
                                         interval, agg)]
      pushed == [self EXCEPT !.fast_lanes = lanes,
                             !.slow_lane = SlowLane_push(@, interval, value)]
  IN IF top_level_full(pushed) THEN rebuild_top_level(pushed) ELSE pushed

\* Mutant of the inner loop of first_fastlane_overlap: offset is advanced
\* once more when the lane is exhausted.
RECURSIVE scan_lane_overrun(_, _, _)
scan_lane_overrun(intervals, offset, window) ==
  IF offset >= Len(intervals) THEN offset + 1
  ELSE IF overlaps(intervals[offset + 1], window) THEN offset
  ELSE scan_lane_overrun(intervals, offset + 1, window)

\* Mutant of the inner loop of first_fastlane_overlap: a block stops the scan
\* only when the window contains it.
RECURSIVE scan_lane_contained(_, _, _)
scan_lane_contained(intervals, offset, window) ==
  IF offset < Len(intervals) /\ ~contains(window, intervals[offset + 1])
  THEN scan_lane_contained(intervals, offset + 1, window)
  ELSE offset

\* The inner loop of first_fastlane_overlap: advance offset over the blocks
\* of one lane until one overlaps the window or the lane is exhausted.
RECURSIVE scan_lane(_, _, _)
scan_lane(intervals, offset, window) ==
  IF offset < Len(intervals) /\ ~overlaps(intervals[offset + 1], window)
  THEN scan_lane(intervals, offset + 1, window)
  ELSE offset

\* The outer loop of first_fastlane_overlap, l is the position of the lane.
\* used collects the offset each lane was sliced at; slicing a lane at an
\* offset beyond its length panics.
RECURSIVE fastlane_descent(_, _, _, _, _)
fastlane_descent(self, l, offset, window, used) ==
  IF l > Len(self.fast_lanes)
  THEN [panic |-> FALSE, offset |-> offset, used |-> used]
  ELSE IF offset > Len(self.fast_lanes[l].intervals)
  THEN [panic |-> TRUE, offset |-> offset, used |-> Append(used, offset)]
  ELSE fastlane_descent(self, l + 1,
         scan_lane(self.fast_lanes[l].intervals, offset, window) * self.order,
         window, Append(used, offset))

first_fastlane_overlap(self, window) ==
  fastlane_descent(self, 1, 0, window, <<>>)

\* The loop of first_overlap over the slow lane from position i.
RECURSIVE first_overlap_scan(_, _, _, _)
first_overlap_scan(intervals, i, index, window) ==
  IF i >= Len(intervals) THEN index
  ELSE IF overlaps(intervals[i + 1], window) THEN i
  ELSE first_overlap_scan(intervals, i + 1, index, window)

first_overlap(self, window) ==
  LET fast == first_fastlane_overlap(self, window)
      index == fast.offset
  IN IF fast.panic
     THEN [panic |-> TRUE, used |-> fast.used, sliced |-> -1, index |-> -1]
     ELSE IF index > Len(self.slow_lane.intervals)
     THEN [panic |-> TRUE, used |-> fast.used, sliced |-> index, index |-> -1]
     ELSE [panic |-> FALSE, used |-> fast.used, sliced |-> index,
           index |-> first_overlap_scan(self.slow_lane.intervals, index,
                                        index, window)]

\* Mutant of the lane loop of query_with: a block is skipped as soon as it
\* overlaps the window.
skip_lane_overlapping(self, window, index) ==
  LET hits == {l \in DOMAIN self.fast_lanes :
                 LET lane == self.fast_lanes[l]
                     lane_index == index \div lane.interval
                 IN /\ lane_index < Len(lane.intervals)
                    /\ overlaps(window, lane.intervals[lane_index + 1])}
  IN IF hits = {} THEN 0 ELSE CHOOSE l \in hits : \A m \in hits : l <= m

\* Position in fast_lanes of the first lane, coarsest first, whose block
\* holding index is contained in the window; 0 when there is none.
skip_lane(self, window, index) ==
  LET hits == {l \in DOMAIN self.fast_lanes :
                 LET lane == self.fast_lanes[l]
                     lane_index == index \div lane.interval
                 IN /\ lane_index < Len(lane.intervals)
                    /\ contains(window, lane.intervals[lane_index + 1])}
  IN IF hits = {} THEN 0 ELSE CHOOSE l \in hits : \A m \in hits : l <= m

\* The element scan of query_with over intervals[start..end], i counts the
\* elements done; visits are reported at index + i.
RECURSIVE scan_slow(_, _, _, _, _, _, _)
scan_slow(intervals, window, index, start, end, i, visits) ==
  IF start + i >= end THEN [broke |-> FALSE, visits |-> visits]
  ELSE LET interval == intervals[start + i + 1]
       IN IF interval.start > window.end
          THEN [broke |-> TRUE, visits |-> visits]
          ELSE scan_slow(intervals, window, index, start, end, i + 1,
                 IF overlaps(interval, window)
                 THEN Append(visits,
                        [kind |-> "slow", lane |-> 0, index |-> index + i])
                 ELSE visits)

\* Mutant of the element count of the scan step: a whole block width, not
\* the distance to the next multiple of order.
scan_iterations_whole(ord, index) == ord

\* Number of elements the scan step of query_with covers from index.
scan_iterations(ord, index) == ord - (index % ord)

\* Loop condition of the 'search loop of query_with.
search_continues(index, length) == index < length

\* The 'search loop of query_with.  steps collects the value of index at the
\* head of every iteration, visits the visitor callbacks in call order; last
\* is the value of index when the loop is left, broke whether it was left
\* by break 'search.
RECURSIVE search(_, _, _, _, _)
search(self, window, index, steps, visits) ==
  LET length == Len(self.slow_lane.intervals)
  IN IF ~search_continues(index, length)
     THEN [panic |-> FALSE, steps |-> steps, visits |-> visits,
           last |-> index, broke |-> FALSE]
     ELSE LET l == skip_lane(self, window, index)
          IN IF l # 0
             THEN search(self, window, index + self.fast_lanes[l].interval,
                         Append(steps, index),
                         Append(visits,
                           [kind |-> "fast", lane |-> l, index |-> index]))
             ELSE LET iterations == scan_iterations(self.order, index)
                      start == Min(index, length - 1)
                      end == Min(index + iterations, length)
                  IN IF length = 0 \/ start > end
                     THEN [panic |-> TRUE, steps |-> Append(steps, index),
                           visits |-> visits, last |-> index,
                           broke |-> FALSE]
                     ELSE LET scan == scan_slow(self.slow_lane.intervals,
                                        window, index, start, end, 0, visits)
                          IN IF scan.broke
                             THEN [panic |-> FALSE,
                                   steps |-> Append(steps, index),
                                   visits |-> scan.visits, last |-> index,
                                   broke |-> TRUE]
                             ELSE search(self, window, end,
                                         Append(steps, index), scan.visits)

query_with(self, window) ==
  LET first == first_overlap(self, window)
  IN IF first.panic
     THEN [panic |-> TRUE, used |-> first.used, sliced |-> first.sliced,
           first |-> -1, steps |-> <<>>, visits |-> <<>>, last |-> -1,
           broke |-> FALSE]
     ELSE LET run == search(self, window, first.index, <<>>, <<>>)
          IN [panic |-> run.panic, used |-> first.used,
              sliced |-> first.sliced, first |-> first.index,
              steps |-> run.steps, visits |-> run.visits,
              last |-> run.last, broke |-> run.broke]

\* ------------------------------------------------- index.rs: the visitors
AggregateVisitor_visit_fast_lane(self, output, index, l) ==
  LET lane == self.fast_lanes[l]
      lane_index == index \div lane.interval
  IN DefaultStatistics_aggregate(output, lane.aggregations[lane_index + 1])

AggregateVisitor_visit_slow_lane(self, output, index) ==
  DefaultStatistics_aggregate(output,
    initial(self.slow_lane.intervals[index + 1],
            self.slow_lane.values[index + 1]))

RECURSIVE AggregateVisitor_run(_, _, _, _)
AggregateVisitor_run(self, visits, k, output) ==
  IF k > Len(visits) THEN output
  ELSE AggregateVisitor_run(self, visits, k + 1,
         IF visits[k].kind = "fast"
         THEN AggregateVisitor_visit_fast_lane(self, output, visits[k].index,
                                               visits[k].lane)
         ELSE AggregateVisitor_visit_slow_lane(self, output, visits[k].index))

\* Mutant of the RangeVisitor match: a new range is always pushed.
range_extend_always_push(output, index, end) ==
  Append(output, [start |-> index, end |-> end])

\* The match on output.last_mut() shared by both RangeVisitor callbacks;
\* a range index..end is the record [start |-> index, end |-> end].
range_extend(output, index, end) ==
  IF output # <<>> /\ output[Len(output)].end = index
  THEN [output EXCEPT ![Len(output)].end = end]
  ELSE Append(output, [start |-> index, end |-> end])

RangeVisitor_visit_fast_lane(self, output, index, l) ==
  LET end == Min(index + self.fast_lanes[l].interval,
                 Len(self.slow_lane.intervals))
  IN range_extend(output, index, end)

RangeVisitor_visit_slow_lane(self, output, index) ==
  range_extend(output, index, index + 1)

RECURSIVE RangeVisitor_run(_, _, _, _)
RangeVisitor_run(self, visits, k, output) ==
  IF k > Len(visits) THEN output
  ELSE RangeVisitor_run(self, visits, k + 1,
         IF visits[k].kind = "fast"
         THEN RangeVisitor_visit_fast_lane(self, output, visits[k].index,
                                           visits[k].lane)
         ELSE RangeVisitor_visit_slow_lane(self, output, visits[k].index))

\* values[range] for every range of the output, flattened in order.
RECURSIVE range_values(_, _, _)
range_values(values, ranges, k) ==
  IF k > Len(ranges) THEN <<>>
  ELSE SubSeq(values, ranges[k].start + 1, ranges[k].end)
       \o range_values(values, ranges, k + 1)

\* IntervalIndex::aggregate and IntervalIndex::query on one window: both run
\* query_with, so they panic together.
IntervalIndex_aggregate(self, run) ==
  AggregateVisitor_run(self, run.visits, 1, empty)

IntervalIndex_query(self, run) ==
  RangeVisitor_run(self, run.visits, 1, <<>>)

NoAggregate == [min |-> -1, max |-> -1, total_duration |-> -1, count |-> -1]

IntervalIndex_result(self, window) ==
  LET run == query_with(self, window)
      ranges == IF run.panic THEN <<>> ELSE IntervalIndex_query(self, run)
  IN [panic |-> run.panic, used |-> run.used, sliced |-> run.sliced,
      first |-> run.first, steps |-> run.steps, visits |-> run.visits,
      last |-> run.last, broke |-> run.broke,
      aggregate |-> IF run.panic THEN NoAggregate
                    ELSE IntervalIndex_aggregate(self, run),
      ranges |-> ranges,
      values |-> range_values(self.slow_lane.values, ranges, 1)]

\* ------------------------------------------------------------- baseline.rs
Baseline_new == [intervals |-> <<>>, values |-> <<>>]

Baseline_push(self, interval, value) ==
  [intervals |-> Append(self.intervals, interval),
   values |-> Append(self.values, value)]

RECURSIVE Baseline_query_loop(_, _, _, _)
Baseline_query_loop(self, window, i, output) ==
  IF i >= Len(self.intervals) THEN output
  ELSE LET interval == self.intervals[i + 1]
           out == IF overlaps(interval, window)
                  THEN Append(output, self.values[i + 1]) ELSE output
       IN IF interval.start > window.end THEN out
          ELSE Baseline_query_loop(self, window, i + 1, out)

Baseline_query(self, window) == Baseline_query_loop(self, window, 0, <<>>)

RECURSIVE Baseline_aggregate_loop(_, _, _, _)
Baseline_aggregate_loop(self, window, i, out) ==
  IF i >= Len(self.intervals) THEN out
  ELSE LET interval == self.intervals[i + 1]
       IN IF interval.start > window.end THEN out
          ELSE Baseline_aggregate_loop(self, window, i + 1,
                 IF overlaps(interval, window)
                 THEN DefaultStatistics_aggregate(out,
                        initial(interval, self.values[i + 1]))
                 ELSE out)

Baseline_aggregate(self, window) ==
  Baseline_aggregate_loop(self, window, 0, empty)

\* ------------------------------------------------------------------ state
VARIABLES
  index,     \* the IntervalIndex
  baseline,  \* the BaselineIntervalIndex fed the same pushes
  op,        \* "query" while the results of a query are held, else "idle"
  window,    \* the window of the last query
  core,      \* what IntervalIndex::query / aggregate returned for it
  oracle,    \* what BaselineIntervalIndex::query / aggregate returned for it
  acc,       \* an aggregate value under construction (aggregate algebra)
  alg        \* the result of the last aggregate-algebra step

vars == <<index, baseline, op, window, core, oracle, acc, alg>>

NoWindow == [start |-> -1, end |-> -1]
NoResult == [panic |-> FALSE]
NoAlg == [kind |-> "none"]

\* actual = Index::new(order); baseline = BaselineIndex::new()
InitIndexes ==
  /\ \E ord \in Orders : index = IntervalIndex_new(ord)
  /\ baseline = Baseline_new
  /\ op = "idle"
  /\ window = NoWindow
  /\ core = NoResult
  /\ oracle = NoResult

Init ==
  /\ InitIndexes
  /\ acc = empty
  /\ alg = NoAlg

\* Precondition of push: start <= end and non-decreasing start order.
in_order(lane, interval) ==
  IF lane.intervals = <<>> THEN TRUE
  ELSE lane.intervals[Len(lane.intervals)].start <= interval.start

\* actual.push(interval, value); baseline.push(interval, value).  The value
\* is the row id, unique per push, as in tests/index_test.rs.
Push ==
  /\ op = "idle"
  /\ Len(index.slow_lane.intervals) < MaxPush
  /\ \E interval \in ProperIntervals :
       LET value == Len(index.slow_lane.values) + 1
       IN /\ in_order(index.slow_lane, interval)
          /\ index' = IntervalIndex_push(index, interval, value)
          /\ baseline' = Baseline_push(baseline, interval, value)
  /\ UNCHANGED <<op, window, core, oracle, acc, alg>>

\* actual.aggregate(w), actual.query(w), baseline.aggregate(w),
\* baseline.query(w) on the same window, as the equivalence test does.
Query ==
  /\ op = "idle"
  /\ \E w \in ProperIntervals :
       /\ window' = w
       /\ core' = IntervalIndex_result(index, w)
       /\ oracle' = [panic |-> FALSE,
                     aggregate |-> Baseline_aggregate(baseline, w),
                     values |-> Baseline_query(baseline, w)]
  /\ op' = "query"
  /\ UNCHANGED <<index, baseline, acc, alg>>

\* The results of the query go out of scope; query borrows the index, so
\* the next push can only happen after this.
Release ==
  /\ op = "query"
  /\ op' = "idle"
  /\ window' = NoWindow
  /\ core' = NoResult
  /\ oracle' = NoResult
  /\ UNCHANGED <<index, baseline, acc, alg>>

Next == Push \/ Query \/ Release

Spec == Init /\ [][Next]_vars

\* ------------------------------------------- aggregate algebra (pure code)
\* The six orderings of three operands.
Perms == {<<1, 2, 3>>, <<1, 3, 2>>, <<2, 1, 3>>,
          <<2, 3, 1>>, <<3, 1, 2>>, <<3, 2, 1>>}
Groupings == {"left", "right"}

\* a.aggregate(&b) then .aggregate(&c), or b.aggregate(&c) then
\* a.aggregate(&that).
merge_three(a, b, c, grouping) ==
  IF grouping = "left"
  THEN DefaultStatistics_aggregate(DefaultStatistics_aggregate(a, b), c)
  ELSE DefaultStatistics_aggregate(a, DefaultStatistics_aggregate(b, c))

\* let a = A::initial(&interval, &value)
AggInitial ==
  /\ \E interval \in ProperIntervals : acc' = initial(interval, 0)
  /\ UNCHANGED <<index, baseline, op, window, core, oracle, alg>>

\* a.aggregate(&A::initial(&interval, &value))
AggMerge ==
  /\ acc.count >= 1
  /\ acc.count <= MaxMerge
  /\ \E interval \in ProperIntervals :
       acc' = DefaultStatistics_aggregate(acc, initial(interval, 0))
  /\ UNCHANGED <<index, baseline, op, window, core, oracle, alg>>

\* A::empty().aggregate(&a) and a.aggregate(&A::empty())
AggNeutral ==
  /\ acc.count >= 1
  /\ alg' = [kind |-> "neutral", a |-> acc,
             into_empty |-> DefaultStatistics_aggregate(empty, acc),
             with_empty |-> DefaultStatistics_aggregate(acc, empty)]
  /\ UNCHANGED <<index, baseline, op, window, core, oracle, acc>>

\* The three single-element aggregates drawn at the start, merged in one
\* ordering and grouping.
AggThree ==
  /\ alg.kind = "operands"
  /\ \E p \in Perms, g \in Groupings :
       alg' = [kind |-> "three", xs |-> alg.xs, p |-> p, g |-> g,
               result |-> merge_three(alg.xs[p[1]], alg.xs[p[2]],
                                      alg.xs[p[3]], g)]
  /\ UNCHANGED <<index, baseline, op, window, core, oracle, acc>>

\* Three single-element aggregates x, y, z = A::initial(..) are the inputs.
InitAgg ==
  /\ InitIndexes
  /\ acc = empty
  /\ \E x \in ProperIntervals, y \in ProperIntervals, z \in ProperIntervals :
       alg = [kind |-> "operands",
              xs |-> <<initial(x, 0), initial(y, 0), initial(z, 0)>>]

NextAgg == AggInitial \/ AggMerge \/ AggNeutral \/ AggThree

SpecAgg == InitAgg /\ [][NextAgg]_vars

\* ------------------------------------------------- vocabulary of the claims
\* Closed intervals share a point.
Meets(a, b) == ~(a.end < b.start \/ b.end < a.start)

Stored == index.slow_lane.intervals
N == Len(Stored)
Duration(i) == Stored[i].end - Stored[i].start

\* Positions (1-based) of the stored intervals that overlap the window w.
Overlapping(w) == {i \in 1..N : Meets(Stored[i], w)}

RECURSIVE SumDuration(_)
SumDuration(S) ==
  IF S = {} THEN 0
  ELSE LET i == CHOOSE j \in S : TRUE IN Duration(i) + SumDuration(S \ {i})

BagOf(seq) ==
  [v \in {seq[i] : i \in DOMAIN seq} |->
     Cardinality({i \in DOMAIN seq : seq[i] = v})]

\* ------------------------------------------------------------------ claims
\* C1: for in-order pushes into both indexes and any window, the aggregate of
\* IntervalIndex equals that of BaselineIntervalIndex in every field and the
\* multisets of queried values are equal.
EquivalentToOracle ==
  op = "query" =>
    /\ ~core.panic
    /\ core.aggregate = oracle.aggregate
    /\ BagOf(core.values) = BagOf(oracle.values)

\* C2: for a window overlapped by at least one stored interval, aggregate
\* returns the count, the smallest, the largest and the sum of the durations
\* of the stored intervals that overlap the window.
AggregateIsStatistics ==
  (op = "query" /\ Overlapping(window) # {}) =>
    /\ ~core.panic
    /\ core.aggregate.count = Cardinality(Overlapping(window))
    /\ \E i \in Overlapping(window) : core.aggregate.min = Duration(i)
    /\ \A i \in Overlapping(window) : core.aggregate.min <= Duration(i)
    /\ \E i \in Overlapping(window) : core.aggregate.max = Duration(i)
    /\ \A i \in Overlapping(window) : core.aggregate.max >= Duration(i)
    /\ core.aggregate.total_duration = SumDuration(Overlapping(window))

\* C3: no query fails: every offset first_fastlane_overlap slices a lane at
\* is at most that lane's block count, the index first_overlap slices the
\* slow lane at is at most its length, and the query does not panic.
NoOperationFails ==
  op = "query" =>
    /\ \A l \in DOMAIN core.used :
         core.used[l] <= Len(index.fast_lanes[l].intervals)
    /\ core.sliced <= N
    /\ ~core.panic

\* C4: on a non-empty index, a window that overlaps no stored interval
\* yields no values and an aggregate of count 0, without error.
DisjointWindowIsEmpty ==
  (op = "query" /\ N > 0 /\ Overlapping(window) = {}) =>
    /\ ~core.panic
    /\ core.values = <<>>
    /\ core.aggregate.count = 0

\* C5: on an index that was never pushed to, any query yields no values and
\* the aggregate A::empty() (count 0, total_duration 0), and the index is
\* still as constructed.
EmptyIndexQuery ==
  (op = "query" /\ baseline.intervals = <<>>) =>
    /\ ~core.panic
    /\ core.ranges = <<>>
    /\ core.values = <<>>
    /\ core.aggregate.count = 0
    /\ core.aggregate.total_duration = 0
    /\ core.aggregate.min = 0
    /\ core.aggregate.max = 0
    /\ index.slow_lane = [intervals |-> <<>>, values |-> <<>>]
    /\ Len(index.fast_lanes) = 1
    /\ index.fast_lanes[1].intervals = <<>>
    /\ index.fast_lanes[1].aggregations = <<>>

EmptyIndexQueried ==
  op = "query" /\ baseline.intervals = <<>> /\ core.values = <<>>

\* C6: merging an aggregate a into A::empty() yields a in every field, and
\* merging A::empty() into a leaves a unchanged in every field.
EmptyIsNeutral ==
  alg.kind = "neutral" => (alg.into_empty = alg.a /\ alg.with_empty = alg.a)

\* C7: every grouping and ordering of merging three single-element
\* aggregates gives the min, max, total_duration and count of merging them
\* left to right in their original order.
MergeOrderIrrelevant ==
  alg.kind = "three" =>
    LET ref == merge_three(alg.xs[1], alg.xs[2], alg.xs[3], "left")
    IN /\ alg.result.min = ref.min
       /\ alg.result.max = ref.max
       /\ alg.result.total_duration = ref.total_duration
       /\ alg.result.count = ref.count

MergedOutOfOrder ==
  /\ alg.kind = "three"
  /\ alg.p = <<3, 1, 2>>
  /\ alg.g = "right"
  /\ alg.xs[1].min # alg.xs[3].min
  /\ alg.result.count = 3

\* The largest end among the stored intervals at positions lo+1 .. hi.
MaxEnd(lo, hi) ==
  CHOOSE e \in {Stored[i].end : i \in (lo + 1)..hi} :
    \A i \in (lo + 1)..hi : Stored[i].end <= e

\* C8: in every fast lane of block width w, rebuilt lanes included, block k
\* ends at the largest end among the slow-lane elements at positions
\* [k*w, min((k+1)*w, N)).
BlockEndInvariant ==
  \A l \in DOMAIN index.fast_lanes :
    LET lane == index.fast_lanes[l]
        w == lane.interval
    IN \A k \in 0..(Len(lane.intervals) - 1) :
         /\ k * w < N
         /\ lane.intervals[k + 1].end = MaxEnd(k * w, Min((k + 1) * w, N))

RebuiltBlockExtended ==
  /\ Len(index.fast_lanes) >= 2
  /\ N > index.fast_lanes[2].interval
  /\ index.fast_lanes[1].intervals[1].end > Stored[1].end
  /\ index.fast_lanes[1].intervals[1].end > Stored[2].end

BoundaryWindow ==
  op = "query" =>
    /\ \A i \in 1..N :
         /\ overlaps(Stored[i], window) = overlaps(window, Stored[i])
         /\ (window.end = Stored[i].start \/ window.start = Stored[i].end)
              => overlaps(Stored[i], window)
    /\ (N = 1 /\ (window = Stored[1] \/ window.end = Stored[1].start)) =>
         /\ ~core.panic
         /\ core.values = <<index.slow_lane.values[1]>>

TouchingWindowQueried ==
  /\ op = "query"
  /\ N = 1
  /\ window.end = Stored[1].start
  /\ window.start < Stored[1].start
  /\ core.values = <<index.slow_lane.values[1]>>

\* C11: each push lengthens the slow lane by exactly one, stores the pushed
\* interval and value at the position equal to the previous length and
\* leaves every earlier position unchanged; no other step (a query, the
\* release of its results) modifies the slow lane.
SlowLaneAppendOnly ==
  [][IF baseline' # baseline
     THEN /\ Len(index'.slow_lane.intervals) = N + 1
          /\ Len(index'.slow_lane.values) = N + 1
          /\ \A i \in 1..N :
               /\ index'.slow_lane.intervals[i] = index.slow_lane.intervals[i]
               /\ index'.slow_lane.values[i] = index.slow_lane.values[i]
          /\ index'.slow_lane.intervals[N + 1] = baseline'.intervals[N + 1]
          /\ index'.slow_lane.values[N + 1] = baseline'.values[N + 1]
     ELSE index'.slow_lane = index.slow_lane]_vars

PushedAfterDifferent ==
  /\ N >= 3
  /\ Stored[1] # Stored[2]
  /\ Stored[2] # Stored[3]
  /\ index.slow_lane.values = <<1, 2, 3>>

\* The merge, starting from initial() of the first element, of initial() over
\* the stored elements at positions lo+1 .. hi (1-based, lo < hi).
RECURSIVE MergedInitials(_, _)
MergedInitials(lo, hi) ==
  IF hi = lo + 1 THEN initial(Stored[hi], index.slow_lane.values[hi])
  ELSE DefaultStatistics_aggregate(MergedInitials(lo, hi - 1),
         initial(Stored[hi], index.slow_lane.values[hi]))

\* C12: in every fast lane, rebuilt lanes included, each block's aggregate
\* equals the merge, starting from initial() of the block's first element, of
\* initial() over exactly the slow-lane elements of the block's range, in
\* count, min, max and total_duration.
BlockAggregateInvariant ==
  \A l \in DOMAIN index.fast_lanes :
    LET lane == index.fast_lanes[l]
        w == lane.interval
    IN /\ Len(lane.aggregations) = Len(lane.intervals)
       /\ \A k \in 0..(Len(lane.aggregations) - 1) :
            /\ k * w < N
            /\ LET merged == MergedInitials(k * w, Min((k + 1) * w, N))
               IN /\ lane.aggregations[k + 1].count = merged.count
                  /\ lane.aggregations[k + 1].min = merged.min
                  /\ lane.aggregations[k + 1].max = merged.max
                  /\ lane.aggregations[k + 1].total_duration
                       = merged.total_duration

\* C13: for a window overlapped by at least one stored interval,
\* first_overlap returns the smallest slow-lane position whose interval
\* overlaps the window, and phase 1 starts the scan at or before it.
FirstOverlapIsSmallest ==
  (op = "query" /\ Overlapping(window) # {}) =>
    /\ ~core.panic
    /\ core.first + 1 \in Overlapping(window)
    /\ \A i \in Overlapping(window) : core.first + 1 <= i
    /\ core.sliced <= core.first

BlocksSkippedToFirst ==
  /\ op = "query"
  /\ Len(index.fast_lanes) >= 2
  /\ core.sliced >= index.order
  /\ core.first > core.sliced
  /\ core.first + 1 \in Overlapping(window)

\* The slow-lane positions (0-based) one visitor callback covers.
Covered(v) ==
  IF v.kind = "fast"
  THEN v.index..(Min(v.index + index.fast_lanes[v.lane].interval, N) - 1)
  ELSE {v.index}

\* C14: the ranges a query produces are non-empty, lie within the slow
\* lane, are sorted and pairwise disjoint with no two consecutive ranges
\* adjacent (previous.end < next.start), and cover exactly the visited
\* positions.
RangesAreMinimal ==
  op = "query" =>
    /\ \A k \in DOMAIN core.ranges :
         /\ 0 <= core.ranges[k].start
         /\ core.ranges[k].start < core.ranges[k].end
         /\ core.ranges[k].end <= N
    /\ \A k \in 1..(Len(core.ranges) - 1) :
         core.ranges[k].end < core.ranges[k + 1].start
    /\ UNION {core.ranges[k].start..(core.ranges[k].end - 1) :
                k \in DOMAIN core.ranges}
         = UNION {Covered(core.visits[k]) : k \in DOMAIN core.visits}

RangesCoalesced ==
  /\ op = "query"
  /\ Len(core.ranges) >= 2
  /\ Len(core.visits) > Len(core.ranges)

\* C15: a push never changes the width of a lane or the start of an existing
\* block, never changes the interval or aggregate of a block other than the
\* lane's last one (and not that one either when it opens a new block), and
\* lets the block sequence of every existing lane grow by at most one block
\* at the end, also when rebuild_top_level adds a lane in front; no other
\* step changes the lanes.
ClosedBlocksFrozen ==
  [][IF baseline' # baseline
     THEN LET d == Len(index'.fast_lanes) - Len(index.fast_lanes)
          IN /\ d \in {0, 1}
             /\ \A l \in DOMAIN index.fast_lanes :
                  LET old == index.fast_lanes[l]
                      new == index'.fast_lanes[l + d]
                      n == Len(old.intervals)
                      frozen == IF Len(new.intervals) = n THEN n - 1 ELSE n
                  IN /\ new.interval = old.interval
                     /\ Len(new.intervals) \in {n, n + 1}
                     /\ Len(new.aggregations) = Len(new.intervals)
                     /\ \A k \in 1..n :
                          new.intervals[k].start = old.intervals[k].start
                     /\ \A k \in 1..frozen :
                          /\ new.intervals[k] = old.intervals[k]
                          /\ new.aggregations[k] = old.aggregations[k]
     ELSE index'.fast_lanes = index.fast_lanes]_vars

OpenBlockExtended ==
  /\ Len(index.fast_lanes) >= 2
  /\ \E l \in DOMAIN index.fast_lanes :
       LET lane == index.fast_lanes[l]
           n == Len(lane.intervals)
       IN /\ n >= 2
          /\ lane.aggregations[n].count >= 2
          /\ lane.intervals[n].end > Stored[(n - 1) * lane.interval + 1].end
          /\ lane.intervals[n].start < Stored[N].start


\* C16: with L fast lanes, the lane at 0-based position i has block width
\* order^(L-i): the last lane has width order and each lane's width is order
\* times the next lane's. A lane of width w holds ceil(N/w) blocks, and block
\* k starts at the start of position k*w, ends at the largest end over
\* positions [k*w, min((k+1)*w, N)) and counts exactly those positions.
GeometricLanes ==
  LET L == Len(index.fast_lanes)
  IN /\ L >= 1
     /\ index.fast_lanes[L].interval = index.order
     /\ \A l \in 1..L :
          LET lane == index.fast_lanes[l]
              w == lane.interval
          IN /\ w = pow(index.order, L - (l - 1))
             /\ l < L => w = index.order * index.fast_lanes[l + 1].interval
             /\ Len(lane.intervals) = (N + w - 1) \div w
             /\ Len(lane.aggregations) = Len(lane.intervals)
             /\ \A k \in 0..(Len(lane.intervals) - 1) :
                  LET hi == Min((k + 1) * w, N)
                  IN /\ k * w < hi
                     /\ lane.intervals[k + 1].start = Stored[k * w + 1].start
                     /\ lane.intervals[k + 1].end = MaxEnd(k * w, hi)
                     /\ lane.aggregations[k + 1].count = hi - k * w

ThreeLanesPartlyFilled ==
  /\ Len(index.fast_lanes) = 3
  /\ index.fast_lanes[1].interval = 8
  /\ Len(index.fast_lanes[3].intervals) = 3
  /\ Len(index.fast_lanes[2].intervals) = 2
  /\ N % index.order # 0


\* The visitor callbacks of the query in progress, as a set.
Visits == {core.visits[j] : j \in DOMAIN core.visits}

\* C17: in a query that gets past first_overlap, the index at the head of
\* every iteration of the 'search loop is below the slow-lane length and
\* strictly below the index the iteration leaves: a skip step adds the width
\* of the visited lane, a scan step moves to the next multiple of order or
\* to the slow-lane length, whichever is first. The loop makes at most one
\* iteration per stored element and is left with the index at or, after a
\* skip over a partly filled block, beyond the slow-lane length, or by break
\* at an element that starts after the window's end.
QueryTerminates ==
  (op = "query" /\ ~core.panic) =>
    LET n == Len(core.steps)
    IN /\ n <= N
       /\ core.broke \/ core.last >= N
       /\ core.broke =>
            /\ n >= 1
            /\ core.last = core.steps[n]
            /\ \E i \in (core.last + 1)..N : Stored[i].start > window.end
       /\ \A k \in 1..n :
            LET cur == core.steps[k]
                nxt == IF k < n THEN core.steps[k + 1] ELSE core.last
                skips == {v \in Visits :
                            v.kind = "fast" /\ v.index = cur}
            IN /\ cur < N
               /\ (k = n /\ core.broke) \/
                    /\ cur < nxt
                    /\ IF skips # {}
                       THEN \A v \in skips :
                              nxt = cur + index.fast_lanes[v.lane].interval
                       ELSE nxt = Min((cur \div index.order + 1) * index.order,
                                      N)

SkippedAfterUnalignedScan ==
  /\ op = "query"
  /\ ~core.panic
  /\ Len(core.steps) >= 3
  /\ core.steps[1] % index.order # 0
  /\ \E v \in Visits : v.kind = "fast"
  /\ ~core.broke


\* C18: in one query_with run every callback covers at least one stored
\* position, all positions of a callback are below all positions of the
\* next one (so no position is covered twice), visit_fast_lane is called
\* with the first position of the visited block, and every covered position
\* holds an interval that overlaps the window.
NoDoubleVisit ==
  (op = "query" /\ ~core.panic) =>
    /\ \A k \in DOMAIN core.visits :
         LET v == core.visits[k]
         IN /\ Covered(v) # {}
            /\ \A p \in Covered(v) : p + 1 \in Overlapping(window)
            /\ v.kind = "fast" =>
                 v.index % index.fast_lanes[v.lane].interval = 0
    /\ \A k \in 1..(Len(core.visits) - 1) :
         \A p \in Covered(core.visits[k]) :
           \A q \in Covered(core.visits[k + 1]) : p < q

FastThenSlowVisited ==
  /\ op = "query"
  /\ ~core.panic
  /\ Len(index.fast_lanes) >= 2
  /\ \E k \in 1..(Len(core.visits) - 1) :
       /\ core.visits[k].kind = "fast"
       /\ Cardinality(Covered(core.visits[k])) >= 2
       /\ core.visits[k + 1].kind = "slow"
  /\ Overlapping(window) # 1..N

====
